---------------------------- MODULE Spec2Model ----------------------------
(***************************************************************************)
(* WinSAT Viewer (src/WinSAT_Viewer.py): the Tk application that queries   *)
(* Win32_WinSAT through PowerShell, parses the JSON it prints and shows    *)
(* the scores, modelled as a state machine.                                *)
(*                                                                         *)
(* Text (a process's stdout/stderr, raw_json, the clipboard) is a sequence *)
(* of lexical tokens.  A token is a record with its kind and, under a      *)
(* field of its own, its content: punctuation, white space, a bare word,   *)
(* or a JSON literal.  A decoded JSON value is such a record too: "int",   *)
(* "float" (<<whole, tenths>>), "str", "bool", "null", "list" (a sequence  *)
(* of values) and "dict" (a sequence of <<key, value>> pairs in insertion  *)
(* order).                                                                 *)
(***************************************************************************)
EXTENDS Integers, Sequences, FiniteSets, TLC

\* ------------------------------------------------------------------------
\* Bounds of the model
\* ------------------------------------------------------------------------

\* Button presses (Refresh, Run Assessment, Copy JSON) a behaviour may hold.
MaxClicks == 2

\* int() of a string is decided for decimal numerals of -MaxInt..MaxInt.
MaxInt == 9

\* Longest output text enumerated token by token.
MaxTextLen == 4

\* ------------------------------------------------------------------------
\* Values and tokens
\* ------------------------------------------------------------------------

VInt(n) == [kind |-> "int", int |-> n]

VFloat(w, t) == [kind |-> "float", float |-> <<w, t>>]

VStr(s) == [kind |-> "str", str |-> s]

VBool(b) == [kind |-> "bool", bool |-> b]

VNull == [kind |-> "null"]

VList(s) == [kind |-> "list", items |-> s]

VDict(s) == [kind |-> "dict", pairs |-> s]

P(c) == [kind |-> "punct", punct |-> c]

WS == [kind |-> "ws"]

Word(s) == [kind |-> "word", word |-> s]

LiteralKinds == {"int", "float", "str", "bool", "null"}

\* Python's None where the code keeps "str | None" (raw_json): a text that
\* no process output equals.
None == << [kind |-> "None"] >>

\* A string of the program's own (a log line, a message) as a text.
Line(s) == << Word(s) >>

\* ------------------------------------------------------------------------
\* str.strip(), as run_powershell applies it to stdout and stderr
\* ------------------------------------------------------------------------

RECURSIVE LStrip(_)
LStrip(toks) ==
    IF toks # <<>> /\ Head(toks).kind = "ws" THEN LStrip(Tail(toks)) ELSE toks

RECURSIVE RStrip(_)
RStrip(toks) ==
    IF toks # <<>> /\ toks[Len(toks)].kind = "ws"
    THEN RStrip(SubSeq(toks, 1, Len(toks) - 1))
    ELSE toks

Strip(toks) == RStrip(LStrip(toks))

\* ------------------------------------------------------------------------
\* json.loads: a recursive-descent parse of the token sequence.  Each
\* parser returns [ok, val, next, msg]: the value and the index after it,
\* or the message of the JSONDecodeError.
\* ------------------------------------------------------------------------

RECURSIVE SkipWs(_, _)
SkipWs(toks, i) ==
    IF i <= Len(toks) /\ toks[i].kind = "ws" THEN SkipWs(toks, i + 1) ELSE i

IsPunct(toks, i, c) ==
    i <= Len(toks) /\ toks[i].kind = "punct" /\ toks[i].punct = c

Fail(i, m) == [ok |-> FALSE, val |-> VNull, next |-> i, msg |-> m]

Ok(v, i) == [ok |-> TRUE, val |-> v, next |-> i, msg |-> ""]

\* dict[key] = value: a repeated key keeps its place and takes the new value.
RECURSIVE DictSet(_, _, _)
DictSet(pairs, k, v) ==
    IF pairs = <<>> THEN << <<k, v>> >>
    ELSE IF Head(pairs)[1] = k THEN << <<k, v>> >> \o Tail(pairs)
    ELSE << Head(pairs) >> \o DictSet(Tail(pairs), k, v)

RECURSIVE ParseValue(_, _)
RECURSIVE ParseElems(_, _, _)
RECURSIVE ParseMembers(_, _, _)

ParseValue(toks, i0) ==
    LET i == SkipWs(toks, i0) IN
    IF i > Len(toks) THEN Fail(i, "Expecting value")
    ELSE IF toks[i].kind \in LiteralKinds THEN Ok(toks[i], i + 1)
    ELSE IF IsPunct(toks, i, "[") THEN
        LET j == SkipWs(toks, i + 1) IN
        IF IsPunct(toks, j, "]") THEN Ok(VList(<<>>), j + 1)
        ELSE ParseElems(toks, j, <<>>)
    ELSE IF IsPunct(toks, i, "{") THEN
        LET j == SkipWs(toks, i + 1) IN
        IF IsPunct(toks, j, "}") THEN Ok(VDict(<<>>), j + 1)
        ELSE ParseMembers(toks, j, <<>>)
    ELSE Fail(i, "Expecting value")

ParseElems(toks, i, acc) ==
    LET r == ParseValue(toks, i) IN
    IF ~r.ok THEN r
    ELSE LET j == SkipWs(toks, r.next) IN
         IF IsPunct(toks, j, "]") THEN Ok(VList(Append(acc, r.val)), j + 1)
         ELSE IF IsPunct(toks, j, ",") THEN ParseElems(toks, j + 1, Append(acc, r.val))
         ELSE Fail(j, "Expecting ',' delimiter")

ParseMembers(toks, i0, acc) ==
    LET i == SkipWs(toks, i0) IN
    IF ~(i <= Len(toks) /\ toks[i].kind = "str")
    THEN Fail(i, "Expecting property name enclosed in double quotes")
    ELSE LET c == SkipWs(toks, i + 1) IN
         IF ~IsPunct(toks, c, ":") THEN Fail(c, "Expecting ':' delimiter")
         ELSE LET r == ParseValue(toks, c + 1) IN
              IF ~r.ok THEN r
              ELSE LET j == SkipWs(toks, r.next)
                       d == DictSet(acc, toks[i].str, r.val) IN
                   IF IsPunct(toks, j, "}") THEN Ok(VDict(d), j + 1)
                   ELSE IF IsPunct(toks, j, ",") THEN ParseMembers(toks, j + 1, d)
                   ELSE Fail(j, "Expecting ',' delimiter")

JsonLoads(toks) ==
    LET r == ParseValue(toks, 1) IN
    IF ~r.ok THEN r
    ELSE IF SkipWs(toks, r.next) <= Len(toks) THEN Fail(r.next, "Extra data")
    ELSE r

\* ------------------------------------------------------------------------
\* Python's str(), repr() and int() on a decoded value
\* ------------------------------------------------------------------------

RECURSIVE PyRepr(_)
RECURSIVE ReprElems(_)
RECURSIVE ReprItems(_)

\* repr(v): what str() of a container shows for each element.
PyRepr(v) ==
    CASE v.kind = "int" -> ToString(v.int)
      [] v.kind = "float" -> ToString(v.float[1]) \o "." \o ToString(v.float[2])
      [] v.kind = "str" -> "'" \o v.str \o "'"
      [] v.kind = "bool" -> IF v.bool THEN "True" ELSE "False"
      [] v.kind = "null" -> "None"
      [] v.kind = "list" -> "[" \o ReprElems(v.items) \o "]"
      [] v.kind = "dict" -> "{" \o ReprItems(v.pairs) \o "}"

ReprElems(s) ==
    IF s = <<>> THEN ""
    ELSE IF Len(s) = 1 THEN PyRepr(s[1])
    ELSE PyRepr(s[1]) \o ", " \o ReprElems(Tail(s))

ReprItems(s) ==
    IF s = <<>> THEN ""
    ELSE LET one == "'" \o s[1][1] \o "': " \o PyRepr(s[1][2]) IN
         IF Len(s) = 1 THEN one ELSE one \o ", " \o ReprItems(Tail(s))

\* str(v): a string is shown as it is, anything else as its repr.
PyStr(v) == IF v.kind = "str" THEN v.str ELSE PyRepr(v)

\* int(v): [ok, val]; ok = FALSE when int() raises (TypeError, ValueError).
\* A float is truncated, a boolean is 1 or 0, a string is read as a decimal
\* numeral.
PyInt(v) ==
    CASE v.kind = "int" -> [ok |-> TRUE, val |-> v.int]
      [] v.kind = "float" -> [ok |-> TRUE, val |-> v.float[1]]
      [] v.kind = "bool" -> [ok |-> TRUE, val |-> IF v.bool THEN 1 ELSE 0]
      [] v.kind = "str" ->
           IF \E n \in -MaxInt..MaxInt : ToString(n) = v.str
           THEN [ok |-> TRUE,
                 val |-> CHOOSE n \in -MaxInt..MaxInt : ToString(n) = v.str]
           ELSE [ok |-> FALSE, val |-> 0]
      [] OTHER -> [ok |-> FALSE, val |-> 0]

decode_assessment_state(v) ==
    LET iv == PyInt(v) IN
    IF ~iv.ok THEN PyStr(v)
    ELSE IF iv.val = 1 THEN "1 (Valid/Completed)"
    ELSE IF iv.val = 0 THEN "0 (Not run/Unknown)"
    ELSE ToString(iv.val) \o " (Unknown meaning)"

\* ------------------------------------------------------------------------
\* The score fields
\* ------------------------------------------------------------------------

\* _apply_scores.mapping: UI label -> key of the decoded object.
mapping ==
    [l \in {"WinSPRLevel (Base Score)", "CPUScore", "MemoryScore", "DiskScore",
            "GraphicsScore", "D3DScore", "WinSATAssessmentState", "TimeTaken"} |->
        IF l = "WinSPRLevel (Base Score)" THEN "WinSPRLevel" ELSE l]

UILabels == DOMAIN mapping

\* self.fields as _build_ui creates it.
InitialFields == [l \in UILabels |-> "-"]

HasKey(pairs, k) == \E i \in 1..Len(pairs) : pairs[i][1] = k

\* obj.get(key, None) on a dict value.
DictGet(pairs, k) ==
    IF HasKey(pairs, k)
    THEN pairs[CHOOSE i \in 1..Len(pairs) : pairs[i][1] = k][2]
    ELSE VNull

\* A slip: the state field is shown like the others, not decoded.
ApplyScores_NoDecode(obj) ==
    [l \in UILabels |->
        LET val == DictGet(obj.pairs, mapping[l]) IN
        IF val.kind = "null" THEN "-" ELSE PyStr(val)]

\* The fields after _apply_scores(obj); every label is set.
ApplyScores(obj) ==
    [l \in UILabels |->
        LET val == DictGet(obj.pairs, mapping[l]) IN
        IF val.kind = "null" THEN "-"
        ELSE IF mapping[l] = "WinSATAssessmentState"
             THEN decode_assessment_state(val)
             ELSE PyStr(val)]


\* ------------------------------------------------------------------------
\* State
\* ------------------------------------------------------------------------

VARIABLES
    status_var,   \* the status line
    btn_state,    \* state of refresh_btn, run_btn, copy_btn
    cursor,       \* the window's cursor
    fields,       \* the eight score fields, by UI label
    text,         \* the log pane: a sequence of entries
    raw_json,     \* self.raw_json
    clipboard,    \* the system clipboard
    timer,        \* the after(200, refresh_scores) of __init__ is pending
    threads,      \* worker threads in flight, oldest first: [kind, pc]
    events,       \* callbacks posted with after(0, ...), in order
    modal,        \* open message boxes, innermost last, each with the rest
                  \* of the handler that waits for it
    clicks        \* button presses so far

vars == <<status_var, btn_state, cursor, fields, text, raw_json, clipboard,
          timer, threads, events, modal, clicks>>

display == <<status_var, btn_state, cursor, fields, text>>

Buttons == {"refresh_btn", "run_btn", "copy_btn"}

\* ------------------------------------------------------------------------
\* resolve_powershell_path and run_powershell
\* ------------------------------------------------------------------------

\* The path for a file system where the System32 and the Sysnative
\* powershell.exe exist or not.
resolve_powershell_path(system32, sysnative) ==
    IF system32 THEN "C:\\Windows\\System32\\WindowsPowerShell\\v1.0\\powershell.exe"
    ELSE IF sysnative THEN "C:\\Windows\\Sysnative\\WindowsPowerShell\\v1.0\\powershell.exe"
    ELSE "powershell"

\* What the PowerShell process may do with ps_query_winsat_json():
\* [rc, stdout, stderr] as the process writes them.
ValidRecord ==
    << P("{"), VStr("WinSPRLevel"), P(":"), VFloat(6, 8), P(","),
       VStr("WinSATAssessmentState"), P(":"), VInt(1), P("}") >>

QueryRuns ==
    { [rc |-> 0, stdout |-> ValidRecord \o <<WS>>, stderr |-> <<>>],
      [rc |-> 0, stdout |-> <<WS>>, stderr |-> <<>>],
      [rc |-> 0, stdout |-> <<Word("not"), WS, Word("json")>>, stderr |-> <<>>],
      [rc |-> 1, stdout |-> <<>>, stderr |-> <<Word("No Win32_WinSAT instance returned."), WS>>],
      [rc |-> 1, stdout |-> <<Word("partial")>>, stderr |-> <<>>] }

\* ... and with ps_run_winsat_assessment().
AssessmentRuns ==
    { [rc |-> 0, stdout |-> <<Word("Running: Feature Enumeration"), WS>>, stderr |-> <<>>],
      [rc |-> 0, stdout |-> <<>>, stderr |-> <<Word("warning")>>],
      [rc |-> 1, stdout |-> <<>>, stderr |-> <<Word("Error: Unable to run without Administrator")>>] }

ProcessRuns(script) == IF script = "query" THEN QueryRuns ELSE AssessmentRuns

\* run_powershell(ps_script, timeout_sec): every result it may give,
\* [raised, rc, out, err].  raised = TRUE is an exception of subprocess.run
\* other than FileNotFoundError and TimeoutExpired, which leaves the call.
run_powershell(ps_script, timeout_sec) ==
    { [raised |-> FALSE, rc |-> p.rc, out |-> Strip(p.stdout), err |-> Strip(p.stderr)] :
        p \in ProcessRuns(ps_script) }
    \cup
    \* FileNotFoundError: neither powershell.exe exists and "powershell" is
    \* not on the PATH.
    { [raised |-> FALSE, rc |-> 127, out |-> <<>>,
       err |-> Line("PowerShell executable not found at: "
                    \o resolve_powershell_path(FALSE, FALSE))] }
    \cup
    { [raised |-> FALSE, rc |-> 124, out |-> <<>>,
       err |-> Line("PowerShell timed out after " \o ToString(timeout_sec)
                    \o " seconds.")] }
    \cup
    { [raised |-> TRUE, rc |-> 0, out |-> <<>>, err |-> <<>>] }

QueryTimeout == 30

AssessmentTimeout == 600


\* ------------------------------------------------------------------------
\* Helpers of the window
\* ------------------------------------------------------------------------

\* _set_busy(busy, msg): the status line, the three buttons, the cursor.
\* msg = "" stands for the default argument.
SetBusy(busy, msg) ==
    /\ status_var' = IF msg # "" THEN msg
                     ELSE IF busy THEN "Working..." ELSE "Ready."
    /\ btn_state' = [b \in Buttons |-> IF busy THEN "disabled" ELSE "normal"]
    /\ cursor' = IF busy THEN "watch" ELSE ""

\* threading.Thread(target=..., daemon=True).start(): a new thread, at the
\* first statement pc of its target.
StartThread(kind, pc) == threads' = Append(threads, [kind |-> kind, pc |-> pc])

\* messagebox.showerror / showinfo: the box opens and the handler waits in
\* it; `resume` names what the handler does once the box is closed.  While
\* it waits, Tk goes on serving timers and posted callbacks.
ShowBox(box, msg, resume) ==
    modal' = Append(modal, [box |-> box, msg |-> msg, resume |-> resume])

\* The user can press button b: it is enabled and no message box holds the
\* input.
CanPress(b) == btn_state[b] = "normal" /\ modal = <<>> /\ clicks < MaxClicks

\* ------------------------------------------------------------------------
\* refresh_scores and its worker
\* ------------------------------------------------------------------------

\* The body of refresh_scores, on the UI thread.
refresh_scores ==
    /\ SetBusy(TRUE, "Querying Win32_WinSAT...")
    /\ StartThread("refresh", "clear_log")
    /\ UNCHANGED <<fields, text, raw_json, clipboard, events, modal>>

\* The after(200, self.refresh_scores) of __init__ fires.
TimerRefresh ==
    /\ timer
    /\ timer' = FALSE
    /\ refresh_scores
    /\ UNCHANGED clicks

\* The Refresh button.
ClickRefresh ==
    /\ CanPress("refresh_btn")
    /\ clicks' = clicks + 1
    /\ refresh_scores
    /\ UNCHANGED timer

\* worker(): self._clear_log(), called on the worker thread.
WorkerClearLog(i) ==
    /\ threads[i].pc = "clear_log"
    /\ text' = <<>>
    /\ threads' = [threads EXCEPT ![i].pc = "log"]
    /\ UNCHANGED <<status_var, btn_state, cursor, fields, raw_json, clipboard,
                   timer, events, modal, clicks>>

\* worker(): the self._log(...) calls made on the worker thread, one a step.
WorkerLog(i) ==
    LET t == threads[i] IN
    /\ t.pc \in {"log", "log_note"}
    /\ \/ /\ t.kind = "refresh"
          /\ text' = Append(text, Line("Querying Win32_WinSAT via PowerShell..."))
          /\ threads' = [threads EXCEPT ![i].pc = "run"]
       \/ /\ t.kind = "assessment" /\ t.pc = "log"
          /\ text' = Append(text, Line("Running: winsat formal ..."))
          /\ threads' = [threads EXCEPT ![i].pc = "log_note"]
       \/ /\ t.kind = "assessment" /\ t.pc = "log_note"
          /\ text' = Append(text,
                 Line("Note: this can take a while and may require Administrator privileges.\n"))
          /\ threads' = [threads EXCEPT ![i].pc = "run"]
    /\ UNCHANGED <<status_var, btn_state, cursor, fields, raw_json, clipboard,
                   timer, events, modal, clicks>>

Without(seq, i) == SubSeq(seq, 1, i - 1) \o SubSeq(seq, i + 1, Len(seq))

\* The worker's run_powershell call returns and the worker posts the
\* callback with self.after(0, ...), or the call raises and the thread ends
\* with nothing posted.
WorkerRun(i) ==
    LET t == threads[i]
        script == IF t.kind = "assessment" THEN "assessment" ELSE "query"
        timeout == IF t.kind = "assessment" THEN AssessmentTimeout ELSE QueryTimeout
    IN
    /\ t.pc = "run"
    /\ \E r \in run_powershell(script, timeout) :
         /\ threads' = Without(threads, i)
         /\ events' = IF r.raised THEN events
                       ELSE Append(events,
                              [cb |-> IF t.kind = "assessment" THEN "done"
                                      ELSE "_handle_query_result",
                               rc |-> r.rc, out |-> r.out, err |-> r.err])
    /\ UNCHANGED <<status_var, btn_state, cursor, fields, text, raw_json,
                   clipboard, timer, modal, clicks>>


\* ------------------------------------------------------------------------
\* _handle_query_result
\* ------------------------------------------------------------------------

\* `lines` without the empty ones: "if err: self._log(err)".
NonEmpty(lines) == SelectSeq(lines, LAMBDA l : l # <<>>)

\* What the try block of _handle_query_result does up to its return, its
\* raise or its message box is given as a record: the entries it logs,
\* raw_json, the fields and the status line after it, and the message box
\* it shows (<<>>: none).

\* "if rc != 0": the exit status and the streams are logged.
QueryFailed(rc, out, err) ==
    [logged |-> <<Line("[ERROR] PowerShell exit code: " \o ToString(rc))>>
                \o NonEmpty(<<err, out>>),
     raw |-> raw_json, fields |-> fields, status |-> status_var,
     notice |-> <<"Failed to query Win32_WinSAT.\nSee log for details.">>]

\* A slip: the empty output is logged and no box is shown.
EmptyOutput_Silent ==
    [logged |-> <<Line("[ERROR] Empty output.")>>,
     raw |-> raw_json, fields |-> fields, status |-> status_var,
     notice |-> <<>>]

\* "if not out".
EmptyOutput ==
    [logged |-> <<Line("[ERROR] Empty output.")>>,
     raw |-> raw_json, fields |-> fields, status |-> status_var,
     notice |-> <<"PowerShell returned no output.">>]

\* A slip: a list is not replaced by its first element.
ParsedOutput_ListKept(out) ==
    LET r == JsonLoads(out)
        e == IF ~r.ok THEN r.msg
             ELSE "Unexpected JSON structure (not an object)."
    IN
    IF r.ok /\ r.val.kind = "dict" THEN
        [logged |-> <<Line("Raw JSON:"), out>>,
         raw |-> out, fields |-> ApplyScores(r.val),
         status |-> "WinSAT scores updated.", notice |-> <<>>]
    ELSE
        [logged |-> <<Line("Raw JSON:"), out, Line("[ERROR] " \o e)>>,
         raw |-> out, fields |-> fields, status |-> status_var,
         notice |-> <<"Could not parse/display results:\n" \o e>>]

\* The output is kept and logged, decoded, reduced to the first element of
\* a non-empty list, and applied if it is an object; a JSONDecodeError or
\* the ValueError goes to the except clause.
ParsedOutput(out) ==
    LET r == JsonLoads(out)
        obj == IF r.ok /\ r.val.kind = "list" /\ r.val.items # <<>>
               THEN r.val.items[1] ELSE r.val
        e == IF ~r.ok THEN r.msg
             ELSE "Unexpected JSON structure (not an object)."
    IN
    IF r.ok /\ obj.kind = "dict" THEN
        [logged |-> <<Line("Raw JSON:"), out>>,
         raw |-> out, fields |-> ApplyScores(obj),
         status |-> "WinSAT scores updated.", notice |-> <<>>]
    ELSE
        [logged |-> <<Line("Raw JSON:"), out, Line("[ERROR] " \o e)>>,
         raw |-> out, fields |-> fields, status |-> status_var,
         notice |-> <<"Could not parse/display results:\n" \o e>>]

QueryResultBody(rc, out, err) ==
    IF rc # 0 THEN QueryFailed(rc, out, err)
    ELSE IF out = <<>> THEN EmptyOutput
    ELSE ParsedOutput(out)

\* The posted callback lambda: self._handle_query_result(rc, out, err).
\* Without a message box the finally clause runs in the same step; with
\* one, it runs when the box is closed (CloseBox).
HandleQueryResult(ev) ==
    LET b == QueryResultBody(ev.rc, ev.out, ev.err) IN
    /\ text' = text \o b.logged
    /\ raw_json' = b.raw
    /\ fields' = b.fields
    /\ IF b.notice = <<>>
       THEN /\ SetBusy(FALSE, "")
            /\ modal' = modal
       ELSE /\ status_var' = b.status
            /\ UNCHANGED <<btn_state, cursor>>
            /\ ShowBox("showerror", b.notice[1], "finally")
    /\ UNCHANGED <<clipboard, threads>>

\* ------------------------------------------------------------------------
\* run_assessment, its worker's done() and _refresh_after_assessment
\* ------------------------------------------------------------------------

\* The body of run_assessment, on the UI thread.
run_assessment ==
    /\ SetBusy(TRUE, "Running WinSAT formal...")
    /\ StartThread("assessment", "clear_log")
    /\ UNCHANGED <<fields, text, raw_json, clipboard, events, modal>>

\* The Run Assessment button.
ClickRun ==
    /\ CanPress("run_btn")
    /\ clicks' = clicks + 1
    /\ run_assessment
    /\ UNCHANGED timer

\* A slip: the re-query is announced and started with the assessment's
\* output not logged.
DoneLogged_OutputDropped(rc, out, err) ==
    IF rc # 0
    THEN <<Line("[ERROR] WinSAT exit code: " \o ToString(rc))>> \o NonEmpty(<<err, out>>)
    ELSE <<Line("\nRe-querying Win32_WinSAT...\n")>>

\* What done() logs: for a failure the error and the streams, else the
\* streams under their headings and the re-query line.
DoneLogged(rc, out, err) ==
    IF rc # 0
    THEN <<Line("[ERROR] WinSAT exit code: " \o ToString(rc))>> \o NonEmpty(<<err, out>>)
    ELSE (IF out # <<>> THEN <<Line("WinSAT output:"), out>> ELSE <<>>)
         \o (IF err # <<>> THEN <<Line("WinSAT stderr:"), err>> ELSE <<>>)
         \o <<Line("\nRe-querying Win32_WinSAT...\n")>>

\* The posted callback done().  A failure shows its message box and goes
\* back to Ready when it is closed; a success starts the thread of
\* _refresh_after_assessment, which calls run_powershell at once.
done(ev) ==
    /\ text' = text \o DoneLogged(ev.rc, ev.out, ev.err)
    /\ IF ev.rc # 0
       THEN /\ ShowBox("showerror",
                   "WinSAT assessment failed.\nTry running this program from an elevated (Admin) terminal.\nSee log for details.",
                   "set_ready")
            /\ UNCHANGED <<status_var, btn_state, cursor, threads>>
       ELSE /\ SetBusy(TRUE, "Re-querying Win32_WinSAT...")
            /\ StartThread("requery", "run")
            /\ modal' = modal
    /\ UNCHANGED <<fields, raw_json, clipboard>>

\* The event loop runs the oldest posted callback.
RunEvent ==
    /\ events # <<>>
    /\ events' = Tail(events)
    /\ LET ev == Head(events) IN
       IF ev.cb = "done" THEN done(ev) ELSE HandleQueryResult(ev)
    /\ UNCHANGED <<timer, clicks>>

\* The user closes the innermost message box and its handler goes on:
\* the finally clause of _handle_query_result, the _set_busy(False,
\* "Ready.") of done(), or the return of copy_json.
CloseBox ==
    /\ modal # <<>>
    /\ LET top == modal[Len(modal)] IN
       /\ modal' = SubSeq(modal, 1, Len(modal) - 1)
       /\ IF top.resume = "finally" THEN SetBusy(FALSE, "")
          ELSE IF top.resume = "set_ready" THEN SetBusy(FALSE, "Ready.")
          ELSE UNCHANGED <<status_var, btn_state, cursor>>
    /\ UNCHANGED <<fields, text, raw_json, clipboard, timer, threads, events, clicks>>

\* ------------------------------------------------------------------------
\* copy_json
\* ------------------------------------------------------------------------

\* A slip: clipboard_append without the clipboard_clear before it.
copy_json_NoClear ==
    IF raw_json = None \/ raw_json = <<>>
    THEN /\ ShowBox("showinfo", "No JSON available yet. Click Refresh first.", "return")
         /\ UNCHANGED <<status_var, clipboard>>
    ELSE /\ clipboard' = clipboard \o raw_json
         /\ status_var' = "JSON copied to clipboard."
         /\ modal' = modal

\* The body of copy_json: "not self.raw_json" holds for None and for "".
copy_json ==
    IF raw_json = None \/ raw_json = <<>>
    THEN /\ ShowBox("showinfo", "No JSON available yet. Click Refresh first.", "return")
         /\ UNCHANGED <<status_var, clipboard>>
    ELSE /\ clipboard' = raw_json
         /\ status_var' = "JSON copied to clipboard."
         /\ modal' = modal

\* The Copy JSON button.
ClickCopy ==
    /\ CanPress("copy_btn")
    /\ clicks' = clicks + 1
    /\ copy_json
    /\ UNCHANGED <<btn_state, cursor, fields, text, raw_json, timer, threads,
                   events>>

\* ------------------------------------------------------------------------
\* The application
\* ------------------------------------------------------------------------

\* After WinSatGUI.__init__: the widgets of _build_ui, _set_busy(False) and
\* the pending after(200, refresh_scores).
Init ==
    /\ status_var = "Ready."
    /\ btn_state = [b \in Buttons |-> "normal"]
    /\ cursor = ""
    /\ fields = InitialFields
    /\ text = <<>>
    /\ raw_json = None
    /\ clipboard = <<>>
    /\ timer = TRUE
    /\ threads = <<>>
    /\ events = <<>>
    /\ modal = <<>>
    /\ clicks = 0

WorkerStep ==
    \E i \in DOMAIN threads : WorkerClearLog(i) \/ WorkerLog(i) \/ WorkerRun(i)

UIStep ==
    TimerRefresh \/ ClickRefresh \/ ClickRun \/ ClickCopy \/ RunEvent \/ CloseBox

Next == UIStep \/ WorkerStep

Spec == Init /\ [][Next]_vars


\* ------------------------------------------------------------------------
\* The handling of one query result, over many outputs: the window after a
\* refresh whose callback is pending, with the fields of start-up or of an
\* earlier successful query.
\* ------------------------------------------------------------------------

Alphabet == {P("["), P("]"), P("{"), P("}"), P(","), VInt(42), WS}

EnumeratedTexts == UNION {[1..n -> Alphabet] : n \in 0..MaxTextLen}

Keys == {mapping[l] : l \in UILabels} \cup {"AssessmentStateCode"}

Literals ==
    {VInt(n) : n \in -MaxInt..MaxInt}
    \cup {VFloat(w, t) : w \in 0..2, t \in {0, 5}}
    \cup {VFloat(6, 8), VBool(TRUE), VBool(FALSE), VNull,
          VStr("abc"), VStr("7"), VStr("-"), VStr("2024-01-01")}

Object1(k, v) == <<P("{"), VStr(k), P(":"), v, P("}")>>

\* The record of the specification's end-to-end scenario, under the key the
\* specification names and under the key the query script selects.
ScenarioRecord(stateKey) ==
    << P("{"), VStr("CPUScore"), P(":"), VFloat(7, 9), P(","), WS,
       VStr("MemoryScore"), P(":"), VFloat(8, 2), P(","), WS,
       VStr("DiskScore"), P(":"), VFloat(8, 5), P(","), WS,
       VStr("GraphicsScore"), P(":"), VFloat(6, 8), P(","), WS,
       VStr("D3DScore"), P(":"), VFloat(6, 8), P(","), WS,
       VStr("WinSPRLevel"), P(":"), VFloat(6, 8), P(","), WS,
       VStr("TimeTaken"), P(":"), VStr("2024-01-01"), P(","), WS,
       VStr(stateKey), P(":"), VInt(1), P("}") >>

ObjectTexts ==
    {Object1(k, v) : k \in Keys, v \in Literals}
    \cup {ScenarioRecord("AssessmentStateCode"), ScenarioRecord("WinSATAssessmentState"),
          ValidRecord,
          <<P("{"), VStr("CPUScore"), P(":"), VInt(1), P(","),
            VStr("CPUScore"), P(":"), VInt(2), P("}")>>,
          <<P("{"), VStr("WinSATAssessmentState"), P(":"), P("["), VInt(1), P("]"), P("}")>>,
          <<P("{"), VStr("TimeTaken"), P(":"), P("{"), VStr("a"), P(":"), VInt(1), P("}"), P("}")>>}

ListTexts ==
    {<<P("[")>> \o o \o <<P("]")>> : o \in {ValidRecord, Object1("CPUScore", VInt(7))}}
    \cup {<<P("[")>> \o ValidRecord \o <<P(","), VInt(42), P("]")>>,
          <<P("[")>> \o ValidRecord \o <<P(",")>> \o Object1("CPUScore", VInt(7)) \o <<P("]")>>,
          <<P("[")>> \o Object1("CPUScore", VInt(7)) \o <<P(",")>> \o ValidRecord \o <<P("]")>>,
          <<P("["), VInt(42), P(",")>> \o ValidRecord \o <<P("]")>>,
          <<P("["), P("[")>> \o ValidRecord \o <<P("]"), P("]")>>}

OtherTexts ==
    {<<Word("not"), WS, Word("json")>>, <<VStr("abc")>>, <<VNull>>, <<VBool(TRUE)>>,
     ValidRecord \o <<WS, VInt(42)>>, <<WS>> \o ValidRecord \o <<WS>>}

\* What run_powershell may return as out: stripped.
ParseOutputs ==
    {Strip(t) : t \in EnumeratedTexts \cup ObjectTexts \cup ListTexts \cup OtherTexts}

ParseInit ==
    /\ status_var = "Querying Win32_WinSAT..."
    /\ btn_state = [b \in Buttons |-> "disabled"]
    /\ cursor = "watch"
    /\ \/ fields = InitialFields /\ raw_json = None
       \/ fields = ApplyScores(JsonLoads(ValidRecord).val) /\ raw_json = ValidRecord
    /\ text = <<Line("Querying Win32_WinSAT via PowerShell...")>>
    /\ clipboard = <<>>
    /\ timer = FALSE
    /\ threads = <<>>
    /\ \E out \in ParseOutputs :
         events = <<[cb |-> "_handle_query_result", rc |-> 0, out |-> out, err |-> <<>>]>>
    /\ modal = <<>>
    /\ clicks = 1

ParseNext == RunEvent \/ CloseBox

ParseSpec == ParseInit /\ [][ParseNext]_vars


\* ------------------------------------------------------------------------
\* Properties
\* ------------------------------------------------------------------------

\* Busy: the state _set_busy(True) leaves; Ready: the one _set_busy(False)
\* leaves.
Busy == btn_state["refresh_btn"] = "disabled" /\ btn_state["run_btn"] = "disabled"

Ready == btn_state["refresh_btn"] = "normal" /\ btn_state["run_btn"] = "normal"

Count(seq, Test(_)) == Cardinality({i \in DOMAIN seq : Test(seq[i])})

Invoking(t) == t.pc = "run"

IsRequery(t) == t.kind = "requery"

IsChain(t) == t.kind \in {"assessment", "requery"}

\* The step runs the oldest posted callback.
RunsEvent == events # <<>> /\ events' = Tail(events)

\* C1: at most one worker thread is inside run_powershell at any time,
\* whatever triggers arrive (the start-up timer included).
C1_AtMostOneInvocation == Count(threads, Invoking) <= 1

\* C2: a Busy application always has something left that leads it back to
\* Ready: a worker thread in flight, a posted callback to run, an open
\* message box to close or the start-up timer to fire.  In a Busy state
\* with none of these no step is possible and it stays Busy for ever.
C2_BusyReturnsToReady ==
    Busy => (threads # <<>> \/ events # <<>> \/ modal # <<>> \/ timer)

\* C3: a re-query thread is started only by the step that runs done() for an
\* assessment that returned exit status 0, a step that has logged the
\* assessment's output; and every done() of exit status 0 starts one, no
\* done() of another exit status does.
C3_RequeryIffAssessmentOk ==
    [][LET started == Count(threads', IsRequery) > Count(threads, IsRequery)
           ev == Head(events)
           logged == {text'[i] : i \in (Len(text) + 1)..Len(text')}
       IN
       /\ started =>
            /\ RunsEvent /\ ev.cb = "done" /\ ev.rc = 0
            /\ ev.out # <<>> => ev.out \in logged
            /\ ev.err # <<>> => ev.err \in logged
            /\ Len(text') >= Len(text) /\ SubSeq(text', 1, Len(text)) = text
       /\ (RunsEvent /\ ev.cb = "done") => (started <=> ev.rc = 0)
      ]_vars

\* C3 witness: a re-query is in flight and the assessment's output is in
\* the log.
C3_Witness ==
    /\ \E i \in DOMAIN threads : threads[i].kind = "requery"
    /\ \E j \in DOMAIN text : text[j] = Line("WinSAT output:")

ExitCodes == {0, 1, 124, 127}

JsonErrors ==
    {"Expecting value", "Extra data", "Expecting ',' delimiter",
     "Expecting ':' delimiter", "Expecting property name enclosed in double quotes"}

\* The log entries that carry the [ERROR] marker.
ErrorEntries ==
    {Line("[ERROR] " \o m) :
        m \in {"Empty output.", "Unexpected JSON structure (not an object)."}
              \cup JsonErrors
              \cup {"PowerShell exit code: " \o ToString(rc) : rc \in ExitCodes}
              \cup {"WinSAT exit code: " \o ToString(rc) : rc \in ExitCodes}}

\* The decoded value is an object or a list whose first element is one.
ObjectOrListOfObjectFirst(out) ==
    LET r == JsonLoads(out) IN
    /\ r.ok
    /\ \/ r.val.kind = "dict"
       \/ r.val.kind = "list" /\ r.val.items # <<>> /\ r.val.items[1].kind = "dict"

\* The posted result is a failure: a non-zero exit status (124 and 127
\* included) or, for a query, empty or unparsable output.
FailedResult(ev) ==
    \/ ev.rc # 0
    \/ ev.cb = "_handle_query_result"
       /\ (ev.out = <<>> \/ ~ObjectOrListOfObjectFirst(ev.out))

\* C4: the step that handles a failed result appends an [ERROR] entry to
\* the log, opens exactly one error box and leaves the buttons as they
\* were; the handler shows no box when its box is closed, and only
\* then makes the application Ready; a result that is no failure opens no
\* box.
C4_FailureLoggedAndNoticedOnce ==
    [][/\ (RunsEvent /\ FailedResult(Head(events))) =>
            /\ Len(text') > Len(text) /\ SubSeq(text', 1, Len(text)) = text
            /\ \E i \in (Len(text) + 1)..Len(text') : text'[i] \in ErrorEntries
            /\ Len(modal') = Len(modal) + 1
            /\ SubSeq(modal', 1, Len(modal)) = modal
            /\ modal'[Len(modal')].box = "showerror"
            /\ btn_state' = btn_state
       /\ (RunsEvent /\ ~FailedResult(Head(events))) => modal' = modal
       /\ Len(modal') < Len(modal) =>
            /\ modal' = SubSeq(modal, 1, Len(modal) - 1)
            /\ text' = text
            /\ modal[Len(modal)].box = "showerror" => Ready'
      ]_vars

\* C4 witness: the chained re-query has failed: its error is logged after
\* the re-query line and its box is open.
C4_Witness ==
    /\ modal # <<>> /\ modal[Len(modal)].resume = "finally"
    /\ \E i, j \in DOMAIN text :
         /\ i < j
         /\ text[i] = Line("\nRe-querying Win32_WinSAT...\n")
         /\ text[j] \in ErrorEntries

\* C9: no step of a worker thread changes the status line, the buttons, the
\* cursor, the score fields or the log.
C9_WorkersLeaveDisplayAlone == [][WorkerStep => UNCHANGED display]_vars

\* C10: the application is Busy as long as an assessment or its re-query is
\* outstanding (its thread in flight, or its done() posted and not yet
\* run).
C10_BusyThroughChain ==
    (Count(threads, IsChain) > 0 \/ \E i \in DOMAIN events : events[i].cb = "done")
        => Busy


\* C5 as stated: whenever raw output is held, in a Ready or a Busy state,
\* the Copy button is enabled; and a press of it puts exactly that text on
\* the clipboard, or only shows a notice when none is held, and changes
\* neither the buttons' state nor the threads and posted callbacks.
C5_CopyAvailableWheneverHeld ==
    /\ [](raw_json # None => btn_state["copy_btn"] = "normal")
    /\ [][ClickCopy =>
            /\ raw_json # None => clipboard' = raw_json
            /\ raw_json = None => (clipboard' = clipboard /\ Len(modal') = Len(modal) + 1)
            /\ UNCHANGED <<btn_state, cursor, threads, events>>
         ]_vars

\* C5 as amended: the Copy button is enabled exactly when the application
\* is Ready, whatever is held; a press of it puts exactly raw_json on the
\* clipboard when raw_json is held, and otherwise changes nothing but to
\* show one info box; in both cases the buttons, the cursor, the threads,
\* the posted callbacks, the fields, the log and raw_json stay as they are.
C5_CopyOnlyWhenReady ==
    /\ [](/\ btn_state["copy_btn"] = "normal" <=> Ready
          /\ btn_state["copy_btn"] = "disabled" <=> Busy)
    /\ [][ClickCopy =>
            /\ Ready
            /\ raw_json # None =>
                 (clipboard' = raw_json /\ modal' = modal /\ raw_json # <<>>)
            /\ raw_json = None =>
                 /\ clipboard' = clipboard /\ status_var' = status_var
                 /\ modal' = Append(modal, modal'[Len(modal')])
                 /\ modal'[Len(modal')].box = "showinfo"
            /\ UNCHANGED <<btn_state, cursor, threads, events, fields, text, raw_json>>
         ]_vars

\* C5 witness: Copy has put the held output on the clipboard.
C5_Witness == raw_json # None /\ clipboard = raw_json /\ Ready


\* The step runs the callback of a query that exited 0.
HandlesQueryOutput ==
    RunsEvent /\ Head(events).cb = "_handle_query_result" /\ Head(events).rc = 0

\* The handler took the output as scores: no error entry, no box, back to
\* Ready.
TakenAsScores ==
    /\ modal' = modal
    /\ \A i \in (Len(text) + 1)..Len(text') : text'[i] \notin ErrorEntries
    /\ Ready'

ParseErrorNotices ==
    {"Could not parse/display results:\n" \o e :
        e \in JsonErrors \cup {"Unexpected JSON structure (not an object)."}}

\* The handler refused the output with the notice msg and a logged error,
\* and left the fields alone.
RefusedWith(msgs) ==
    /\ Len(modal') = Len(modal) + 1
    /\ modal'[Len(modal')].msg \in msgs
    /\ \E i \in (Len(text) + 1)..Len(text') : text'[i] \in ErrorEntries
    /\ fields' = fields

\* The decoded value is an object or a non-empty list of objects only.
ObjectOrListOfObjects(out) ==
    LET r == JsonLoads(out) IN
    /\ r.ok
    /\ \/ r.val.kind = "dict"
       \/ /\ r.val.kind = "list" /\ r.val.items # <<>>
          /\ \A i \in DOMAIN r.val.items : r.val.items[i].kind = "dict"

\* The object the scores are taken from: the decoded object, or the first
\* element of the decoded list.
ScoredObject(out) ==
    LET r == JsonLoads(out) IN
    IF r.val.kind = "list" THEN r.val.items[1] ELSE r.val

\* C7, for a shape test Good of the output: the output is taken as scores
\* exactly when Good holds of it, a list giving the fields of its first
\* element alone; empty output is refused as EmptyOutput and any other
\* output as ParseError, the fields untouched.
ParseOutcome(Good(_)) ==
    HandlesQueryOutput =>
        LET out == Head(events).out IN
        /\ TakenAsScores <=> (out # <<>> /\ Good(out))
        /\ TakenAsScores => fields' = ApplyScores(ScoredObject(out))
        /\ out = <<>> => RefusedWith({"PowerShell returned no output."})
        /\ (out # <<>> /\ ~Good(out)) => RefusedWith(ParseErrorNotices)

\* C7 as stated: success exactly for an object or a non-empty list of
\* objects.
C7_SucceedsIffObjectOrListOfObjects == [][ParseOutcome(ObjectOrListOfObjects)]_vars

\* C7 as amended: success exactly for an object or a non-empty list whose
\* first element is an object, whatever follows it.
C7_SucceedsIffFirstIsObject == [][ParseOutcome(ObjectOrListOfObjectFirst)]_vars

MixedList == <<P("[")>> \o ValidRecord \o <<P(","), VInt(42), P("]")>>

\* C7 witness: a list of an object and a number has been taken as scores,
\* those of the object.
C7_Witness ==
    /\ events = <<>> /\ modal = <<>> /\ Ready
    /\ Len(text) = 3 /\ text[3] = MixedList
    /\ fields["WinSPRLevel (Base Score)"] = "6.8"

StateLabel == "WinSATAssessmentState"

\* The input field each displayed field shows, as the specification names
\* them ...
SpecKeys == [l \in UILabels |->
                IF l = StateLabel THEN "AssessmentStateCode" ELSE mapping[l]]

\* ... and as the query script selects them.
ScriptKeys == [l \in UILabels |->
                  IF l = "WinSPRLevel (Base Score)" THEN "WinSPRLevel" ELSE l]

\* What a displayed field shows of a value: the decoded label for the state
\* field, the string form for the others.
ShownForm(l, v) == IF l = StateLabel THEN decode_assessment_state(v) ELSE PyStr(v)

\* C6 as stated: after a successful query of an object every field shows
\* the string form (the state field the decoded label) of its input field
\* when that is present and "-" exactly when it is absent; the scenario
\* record with AssessmentStateCode 1 shows 6.8 and the Valid/Completed
\* label.
C6_FieldsShowPresentValues ==
    [][(HandlesQueryOutput /\ TakenAsScores
        /\ JsonLoads(Head(events).out).val.kind = "dict") =>
          LET out == Head(events).out
              obj == JsonLoads(out).val.pairs
          IN
          /\ \A l \in UILabels :
               /\ HasKey(obj, SpecKeys[l]) =>
                    fields'[l] = ShownForm(l, DictGet(obj, SpecKeys[l]))
               /\ fields'[l] = "-" <=> ~HasKey(obj, SpecKeys[l])
          /\ out = ScenarioRecord("AssessmentStateCode") =>
               /\ fields'["WinSPRLevel (Base Score)"] = "6.8"
               /\ fields'[StateLabel] = "1 (Valid/Completed)"
      ]_vars

\* C6 as amended: every field shows the string form (the state field the
\* decoded label) of its input field, the state under the key
\* WinSATAssessmentState, when that is present and not null, and "-" when
\* it is absent or null; the scenario record with WinSATAssessmentState 1
\* shows 6.8 and the Valid/Completed label.
C6_FieldsShowNonNullValues ==
    [][(HandlesQueryOutput /\ TakenAsScores
        /\ JsonLoads(Head(events).out).val.kind = "dict") =>
          LET out == Head(events).out
              obj == JsonLoads(out).val.pairs
          IN
          /\ \A l \in UILabels :
               LET present == HasKey(obj, ScriptKeys[l])
                              /\ DictGet(obj, ScriptKeys[l]).kind # "null"
               IN
               /\ present => fields'[l] = ShownForm(l, DictGet(obj, ScriptKeys[l]))
               /\ ~present => fields'[l] = "-"
          /\ out = ScenarioRecord("WinSATAssessmentState") =>
               /\ fields'["WinSPRLevel (Base Score)"] = "6.8"
               /\ fields'[StateLabel] = "1 (Valid/Completed)"
               /\ fields'["TimeTaken"] = "2024-01-01"
      ]_vars

\* C6 witness: the scenario record has been displayed over the fields of an
\* earlier query.
C6_Witness ==
    /\ events = <<>> /\ Ready
    /\ raw_json = ScenarioRecord("WinSATAssessmentState")
    /\ fields["WinSPRLevel (Base Score)"] = "6.8"
    /\ fields[StateLabel] = "1 (Valid/Completed)"
    /\ fields["CPUScore"] = "7.9"

\* The string is a decimal numeral, which int() reads.
IsNumeral(str) == \E n \in -MaxInt..MaxInt : ToString(n) = str

\* C8: the state field of a displayed object shows "1 (Valid/Completed)" for
\* the integer 1, "0 (Not run/Unknown)" for 0, "n (Unknown meaning)" for
\* another integer n, and the string form of the value itself for a
\* fractional number, a boolean, a non-numeric string, a list or an
\* object.
C8_DecodeAssessmentState ==
    [][(HandlesQueryOutput /\ TakenAsScores
        /\ JsonLoads(Head(events).out).val.kind = "dict"
        /\ HasKey(JsonLoads(Head(events).out).val.pairs, StateLabel)) =>
          LET v == DictGet(JsonLoads(Head(events).out).val.pairs, StateLabel)
              shown == fields'[StateLabel]
          IN
          /\ v.kind = "int" =>
               shown = IF v.int = 1 THEN "1 (Valid/Completed)"
                       ELSE IF v.int = 0 THEN "0 (Not run/Unknown)"
                       ELSE ToString(v.int) \o " (Unknown meaning)"
          /\ \/ v.kind = "float" /\ v.float[2] # 0
             \/ v.kind \in {"bool", "list", "dict"}
             \/ v.kind = "str" /\ ~IsNumeral(v.str)
             => shown = PyStr(v)
      ]_vars

=============================================================================
